---- MODULE Spec2Model ----
(***************************************************************************)
(* A model of the analysis core of CEG8006Coursework                       *)
(*                                                                         *)
(*   clean_data                   negative/outlier rejection, reindexing,  *)
(*                                limited interpolation                    *)
(*   find_closest_sensors         the n sensors of a broker nearest to a   *)
(*                                point                                    *)
(*   get_road_geometries          shortest-path snapping of sensor links   *)
(*   resample_sensors_timeseries  per-sensor, per-variable bucket means    *)
(*   convert_long_df_to_wide      the pivot to one column per sensor and   *)
(*                                variable                                 *)
(*   get_valid_scenario_dates     the worst-case and the baseline date     *)
(*   the core stages              the tables they are handed and copy      *)
(*   main                         the order of the pipeline                *)
(*   get_sensor_timeseries        the pagination loop                      *)
(*                                                                         *)
(* Each operation has its own specification (SpecClean, SpecClosest,       *)
(* SpecRoad, SpecResample, SpecPivot, SpecScenario, SpecStages, SpecMain,  *)
(* SpecPager) over the same variables; the variables of the operations     *)
(* that a specification does not run keep their idle values.               *)
(*                                                                         *)
(* Data representation.  A column of a DataFrame is a partial function     *)
(* from timestamps to numbers: a timestamp of the index that is not in the *)
(* domain of the column holds NaN.  The index is a sequence of timestamps. *)
(* Timestamps are integers (a number of base time units) and a frequency   *)
(* is a positive number of base units.  Numbers are held in units of       *)
(* 1/Scale, so that every interpolated value is an integer.  Every step of *)
(* clean_data works on each column on its own (elementwise comparison,     *)
(* per-column quantiles, per-column interpolation), so a DataFrame is       *)
(* modelled by its index and one column.                                   *)
(***************************************************************************)
EXTENDS Integers, Sequences, FiniteSets, TLC

VARIABLES
    pc,          \* position of the running operation
    \* ---- clean_data
    in_df,       \* the DataFrame passed to clean_data
    freq,        \* its freq argument
    max_gap,     \* its max_gap argument
    df,          \* the local df of clean_data
    counts,      \* the numbers clean_data prints
    \* ---- find_closest_sensors
    in_gdf,      \* the GeoDataFrame passed in (a sequence of sensor rows)
    point,       \* the query point (lon, lat)
    broker_name, \* the broker filter (a set of broker names)
    n,           \* the number of sensors asked for
    gdf,         \* the local gdf of find_closest_sensors
    result,      \* the returned list of sensor names
    \* ---- get_road_geometries
    graph,       \* the street graph: a set of directed edges
    wkt_df,      \* the link records passed in
    final_geometries, \* the list built by the loop
    road_gdf,    \* the returned GeoDataFrame
    printed,     \* what the loop printed
    \* ---- the locals of the other operations, one record for each
    resampler,   \* resample_sensors_timeseries
    pivot,       \* convert_long_df_to_wide
    scenario,    \* get_valid_scenario_dates
    frames,      \* the tables the core stages are handed, and their copies
    pipeline,    \* the tables of main
    pager        \* get_sensor_timeseries

cleanVars   == <<in_df, freq, max_gap, df, counts>>
closestVars == <<in_gdf, point, broker_name, n, gdf, result>>
roadVars    == <<graph, wkt_df, final_geometries, road_gdf, printed>>
laterVars   == <<resampler, pivot, scenario, frames, pipeline, pager>>
vars        == <<pc, cleanVars, closestVars, roadVars, laterVars>>

\* the value of the record of an operation that is not running
Idle == [op |-> "idle"]

-----------------------------------------------------------------------------
(* Bounds of the model *)

\* timestamps of an input index are drawn from 0..MaxT
MaxT == 5

RECURSIVE Fact(_)
Fact(k) == IF k <= 1 THEN 1 ELSE k * Fact(k - 1)

\* numbers are held in units of 1/Scale: every difference of two timestamps
\* divides Scale, so time-weighted interpolation stays in the integers
Scale == Fact(MaxT)

\* the readings an input cell may hold (a negative one, zero, a positive one)
Vals == {-1 * Scale, 0, 4 * Scale}

\* other negative readings, used to compare runs that differ in a negative value
NegVals == {-1 * Scale, -9 * Scale}

Freqs == {1, 2}

GapLimits == {1, 2}

-----------------------------------------------------------------------------
(* Helpers on sequences and columns *)

RECURSIVE SetToSeq(_)
\* the elements of a set of integers in ascending order
SetToSeq(S) ==
    IF S = {} THEN <<>>
    ELSE LET m == CHOOSE x \in S : \A y \in S : x <= y
         IN  <<m>> \o SetToSeq(S \ {m})

Range(s) == {s[k] : k \in DOMAIN s}

Restrict(f, S) == [x \in S |-> f[x]]

Min(S) == CHOOSE x \in S : \A y \in S : x <= y
Max(S) == CHOOSE x \in S : \A y \in S : x >= y

\* a DataFrame: its index and the non-null cells of its column
Frame(index, col) == [index |-> index, col |-> col]

IsNa(d, t) == t \notin DOMAIN d.col

\* df.isna().sum().sum()
NaCount(d) == Cardinality({k \in DOMAIN d.index : IsNa(d, d.index[k])})

-----------------------------------------------------------------------------
(* clean_data, src/data_analysis.py:172-211 *)

\* mutant: the negatives mask is computed and never applied
NullNegativesNotApplied(d) == d

\* df[df < 0] = np.nan : the cells that are not negative
NullNegatives(d) ==
    Frame(d.index, Restrict(d.col, {t \in DOMAIN d.col : ~(d.col[t] < 0)}))

\* (df < 0).sum().sum()
NegativesCount(d) == Cardinality({t \in DOMAIN d.col : d.col[t] < 0})

RECURSIVE SortVals(_, _)
\* the non-null values of a column in ascending order
SortVals(col, S) ==
    IF S = {} THEN <<>>
    ELSE LET t == CHOOSE t \in S : \A u \in S : col[t] <= col[u]
         IN  <<col[t]>> \o SortVals(col, S \ {t})

\* 4 * df.quantile(k/4) of a column with at least one non-null value: pandas
\* skips NaN and interpolates linearly between the two order statistics around
\* position (k/4)*(len-1)
Quantile4(col, k) ==
    LET s    == SortVals(col, DOMAIN col)
        pos4 == k * (Len(s) - 1)
        j    == pos4 \div 4
        r    == pos4 % 4
    IN  IF r = 0 THEN 4 * s[j + 1]
        ELSE 4 * s[j + 1] + r * (s[j + 2] - s[j + 1])

\* 4 * (Q1 - 3.0 * IQR)
LowerBound4(col) ==
    LET Q1  == Quantile4(col, 1)
        Q3  == Quantile4(col, 3)
        IQR == Q3 - Q1
    IN  Q1 - 3 * IQR

\* 4 * (Q3 + 3.0 * IQR)
UpperBound4(col) ==
    LET Q1  == Quantile4(col, 1)
        Q3  == Quantile4(col, 3)
        IQR == Q3 - Q1
    IN  Q3 + 3 * IQR

\* mutant: only the lower bound is tested
OutlierMaskLowerOnly(d) ==
    IF DOMAIN d.col = {} THEN {}
    ELSE {t \in DOMAIN d.col : 4 * d.col[t] < LowerBound4(d.col)}

\* (df < lower_bound) | (df > upper_bound): the quantiles of a column without
\* values are NaN and every comparison with NaN is False
OutlierMask(d) ==
    IF DOMAIN d.col = {} THEN {}
    ELSE {t \in DOMAIN d.col :
             \/ 4 * d.col[t] < LowerBound4(d.col)
             \/ 4 * d.col[t] > UpperBound4(d.col)}

\* df[outlier_mask] = np.nan
NullOutliers(d) ==
    Frame(d.index, Restrict(d.col, DOMAIN d.col \ OutlierMask(d)))

RECURSIVE DateRangeOpenEnd(_, _, _)
\* mutant: the end of the range is left out
DateRangeOpenEnd(start, end, f) ==
    IF start >= end THEN <<>>
    ELSE <<start>> \o DateRangeOpenEnd(start + f, end, f)

RECURSIVE DateRange(_, _, _)
\* pd.date_range(start, end, freq): start, start+freq, ... while <= end
DateRange(start, end, f) ==
    IF start > end THEN <<>>
    ELSE <<start>> \o DateRange(start + f, end, f)

\* df.reindex(full_idx): the rows of full_idx; a label df does not have gives
\* an all-NaN row and a row of df whose label is not in full_idx is dropped
Reindex(d, full_idx) ==
    Frame(full_idx, Restrict(d.col, DOMAIN d.col \cap Range(d.index) \cap Range(full_idx)))

\* pandas _interp_limit(invalid, limit, limit): the positions that stay NaN:
\* those with no valid value 1..limit positions before and none 1..limit after
PreserveNans(d, limit) ==
    {x \in DOMAIN d.index :
        /\ IsNa(d, d.index[x])
        /\ \A y \in DOMAIN d.index :
              (y /= x /\ y >= x - limit /\ y <= x + limit) => IsNa(d, d.index[y])}

\* np.interp(t, xp, fp) over the valid cells: linear in the index value between
\* the two neighbours, the first (last) valid value before (after) all of them
Interp(col, t) ==
    LET xs == DOMAIN col
    IN  IF t < Min(xs) THEN col[Min(xs)]
        ELSE IF t > Max(xs) THEN col[Max(xs)]
        ELSE LET tl == Max({x \in xs : x <= t})
                 tr == Min({x \in xs : x >= t})
             IN  IF tl = tr THEN col[tl]
                 ELSE ((col[tr] - col[tl]) * (t - tl)) \div (tr - tl) + col[tl]

\* df.interpolate(method="time", limit=limit, limit_direction="both")
Interpolate(d, limit) ==
    IF DOMAIN d.col = {} THEN d
    ELSE LET fill == {d.index[x] : x \in {y \in DOMAIN d.index : IsNa(d, d.index[y])}
                                          \ PreserveNans(d, limit)}
         IN  Frame(d.index,
                   [t \in DOMAIN d.col \cup fill |->
                       IF t \in DOMAIN d.col THEN d.col[t] ELSE Interp(d.col, t)])

\* the whole of clean_data
CleanData(d, f, limit) ==
    LET a == NullOutliers(NullNegatives(d))
        b == Reindex(a, DateRange(Min(Range(a.index)), Max(Range(a.index)), f))
    IN  Interpolate(b, limit)

NoCounts == [negatives |-> 0, outliers |-> 0, removed |-> 0, remaining |-> 0]

NoFrame == Frame(<<>>, <<>>)

\* the inputs of clean_data: a non-empty index in ascending order without
\* duplicates, each cell NaN or a reading
InitClean ==
    /\ pc = "clean_start"
    /\ \E idx \in SUBSET (0 .. MaxT) : \E valid \in SUBSET idx : \E col \in [valid -> Vals] :
          /\ idx /= {}
          /\ in_df = Frame(SetToSeq(idx), col)
    /\ freq \in Freqs
    /\ max_gap \in GapLimits
    /\ df = NoFrame
    /\ counts = NoCounts
    /\ in_gdf = <<>> /\ point = <<0, 0>> /\ broker_name = {} /\ n = 0
    /\ gdf = <<>> /\ result = <<>>
    /\ graph = {} /\ wkt_df = <<>> /\ final_geometries = <<>> /\ road_gdf = <<>>
    /\ printed = 0
    /\ resampler = Idle /\ pivot = Idle /\ scenario = Idle
    /\ frames = Idle /\ pipeline = Idle /\ pager = Idle

\* lines 178-184
RemoveNegatives ==
    /\ pc = "clean_start"
    /\ df' = NullNegatives(in_df)
    /\ counts' = [counts EXCEPT !.negatives = NegativesCount(in_df)]
    /\ pc' = "clean_outliers"
    /\ UNCHANGED <<in_df, freq, max_gap>>

\* lines 186-199
RemoveOutliers ==
    /\ pc = "clean_outliers"
    /\ df' = NullOutliers(df)
    /\ counts' = [counts EXCEPT !.outliers = Cardinality(OutlierMask(df))]
    /\ pc' = "clean_reindex"
    /\ UNCHANGED <<in_df, freq, max_gap>>

\* lines 202-204
ReindexFull ==
    /\ pc = "clean_reindex"
    /\ df' = Reindex(df, DateRange(Min(Range(df.index)), Max(Range(df.index)), freq))
    /\ pc' = "clean_interpolate"
    /\ UNCHANGED <<in_df, freq, max_gap, counts>>

\* lines 205-211
InterpolateGaps ==
    /\ pc = "clean_interpolate"
    /\ df' = Interpolate(df, max_gap)
    /\ counts' = [counts EXCEPT !.removed = NaCount(df) - NaCount(df'),
                                !.remaining = NaCount(df')]
    /\ pc' = "clean_done"
    /\ UNCHANGED <<in_df, freq, max_gap>>

-----------------------------------------------------------------------------
(* find_closest_sensors, src/data_analysis.py:18-53 *)

\* sensors per input table, and the largest n asked for
MaxSensors == 3
MaxN == 3

Brokers == {"aq_mesh_api", "NE Travel Data API"}

\* sensor and query locations: (lon, lat) as offsets from the site of the
\* study, (-1.625129, 54.981496), in thousandths of a degree.  No two of the
\* locations are at the same distance from a query point, so two sensors are
\* at the same distance only when they are at the same location.
GeoPoints == {<<3, 0>>, <<0, 2>>, <<1, 0>>, <<-1, 1>>}
QueryPoints == {<<0, 0>>, <<1, 0>>}

\* the sensor tables: row k is the sensor named k
SensorTables ==
    UNION {[1 .. k -> [Broker_Name : Brokers, geometry : GeoPoints]] : k \in 0 .. MaxSensors}

\* gdf[gdf["Broker_Name"].isin(broker_names)]: the rows kept, in input order
RECURSIVE FilterRows(_, _, _)
FilterRows(g, names, k) ==
    IF k > Len(g) THEN <<>>
    ELSE (IF g[k].Broker_Name \in names
          THEN <<[Sensor_Name |-> k, Broker_Name |-> g[k].Broker_Name,
                  geometry |-> g[k].geometry]>>
          ELSE <<>>) \o FilterRows(g, names, k + 1)

filter_by_broker_name(g, names) == FilterRows(g, names, 1)

\* to_crs("EPSG:27700"): the British National Grid, in metres from the site.
\* Within a few thousandths of a degree of the site the projection is linear
\* to well under a metre: a thousandth of a degree of longitude is 64 m on
\* the ground and a thousandth of a degree of latitude 111 m.
ToCrs27700(p) == <<64 * p[1], 111 * p[2]>>

\* the square of geometry.distance(fixed_point), which orders as the distance
Distance2(p, q) == (p[1] - q[1]) * (p[1] - q[1]) + (p[2] - q[2]) * (p[2] - q[2])

\* mutant: the distance is taken in degrees, without reprojection
WithDistanceInDegrees(g, pt) ==
    [k \in DOMAIN g |->
        [Sensor_Name |-> g[k].Sensor_Name, Broker_Name |-> g[k].Broker_Name,
         geometry |-> g[k].geometry,
         Distance |-> Distance2(g[k].geometry, pt)]]

\* lines 40-45: the rows reprojected, with their Distance column
WithDistance(g, pt) ==
    [k \in DOMAIN g |->
        [Sensor_Name |-> g[k].Sensor_Name, Broker_Name |-> g[k].Broker_Name,
         geometry |-> ToCrs27700(g[k].geometry),
         Distance |-> Distance2(ToCrs27700(g[k].geometry), ToCrs27700(pt))]]

IsSortedBy(g) == \A a, b \in DOMAIN g : a < b => g[a].Distance <= g[b].Distance

\* sort_values("Distance") with the default kind="quicksort": numpy does not
\* promise the order of equal keys, so every ascending arrangement is possible
SortedArrangements(g) ==
    {h \in {[k \in DOMAIN g |-> g[p[k]]] : p \in Permutations(DOMAIN g)} : IsSortedBy(h)}

\* gdf["Sensor_Name"][0:n] for n >= 0
FirstN(g, k) == [j \in 1 .. (IF k < Len(g) THEN k ELSE Len(g)) |-> g[j].Sensor_Name]

InitClosest ==
    /\ pc = "closest_start"
    /\ in_gdf \in SensorTables
    /\ point \in QueryPoints
    /\ broker_name \in {{"aq_mesh_api"}, {"NE Travel Data API"}, Brokers}
    /\ n \in 0 .. MaxN
    /\ gdf = <<>>
    /\ result = <<>>
    /\ in_df = NoFrame /\ freq = 1 /\ max_gap = 1 /\ df = NoFrame /\ counts = NoCounts
    /\ graph = {} /\ wkt_df = <<>> /\ final_geometries = <<>> /\ road_gdf = <<>>
    /\ printed = 0
    /\ resampler = Idle /\ pivot = Idle /\ scenario = Idle
    /\ frames = Idle /\ pipeline = Idle /\ pager = Idle

\* lines 37-38
FilterByBroker ==
    /\ pc = "closest_start"
    /\ gdf' = filter_by_broker_name(in_gdf, broker_name)
    /\ pc' = "closest_distance"
    /\ UNCHANGED <<in_gdf, point, broker_name, n, result>>

\* lines 40-45
ComputeDistance ==
    /\ pc = "closest_distance"
    /\ gdf' = WithDistance(gdf, point)
    /\ pc' = "closest_sort"
    /\ UNCHANGED <<in_gdf, point, broker_name, n, result>>

\* line 46
SortValues ==
    /\ pc = "closest_sort"
    /\ gdf' \in SortedArrangements(gdf)
    /\ pc' = "closest_take"
    /\ UNCHANGED <<in_gdf, point, broker_name, n, result>>

\* lines 48-53
TakeFirstN ==
    /\ pc = "closest_take"
    /\ result' = FirstN(gdf, n)
    /\ pc' = "closest_done"
    /\ UNCHANGED <<in_gdf, point, broker_name, n, gdf>>

-----------------------------------------------------------------------------
(* get_road_geometries, src/data_analysis.py:84-128 *)
(* Coordinates are positions along one axis, so that lengths are integers. *)
(* A geometry is the list of its coordinates; a coordinate that is NaN is  *)
(* absent from the list's domain.  A graph node is named by its position.  *)

\* link records per batch
MaxRecords == 2

GraphNodes == {0, 3, 6}

\* the streets that may exist, each in one direction
Streets == {<<0, 3>>, <<3, 0>>, <<3, 6>>, <<6, 3>>}

\* the positions a link may start or end at
LinkCoords == {1, 4, 5}

\* the two-endpoint geometries of Location_WKT, an endpoint possibly NaN
LinkGeometries ==
    UNION {[D -> LinkCoords] : D \in SUBSET {1, 2}} \ {<<>>}

Abs(x) == IF x < 0 THEN 0 - x ELSE x

\* ox.nearest_nodes(graph, X, Y) for a coordinate that is not NaN
nearest_nodes(x) ==
    CHOOSE v \in GraphNodes :
        \A w \in GraphNodes : Abs(v - x) < Abs(w - x) \/ (Abs(v - x) = Abs(w - x) /\ v <= w)

RECURSIVE PathsFrom(_, _, _, _)
\* the simple paths of g from the end of path p to node t
PathsFrom(g, p, t, left) ==
    IF p[Len(p)] = t THEN {p}
    ELSE IF left = 0 THEN {}
    ELSE UNION {PathsFrom(g, Append(p, e[2]), t, left - 1) :
                   e \in {e \in g : e[1] = p[Len(p)] /\ e[2] \notin Range(p)}}

RECURSIVE PathLength(_, _)
\* the length of a list of coordinates
PathLength(p, k) ==
    IF k >= Len(p) THEN 0 ELSE Abs(p[k + 1] - p[k]) + PathLength(p, k + 1)

\* GeoSeries.length
Length(geometry) == PathLength(geometry, 1)

Paths(g, s, t) == PathsFrom(g, <<s>>, t, Cardinality(GraphNodes))

\* nx.shortest_path(graph_proj, s, t, weight="length") when a path exists
shortest_path(g, s, t) ==
    CHOOSE p \in Paths(g, s, t) : \A q \in Paths(g, s, t) : Length(p) <= Length(q)

\* the body of the try block, lines 108-115: NetworkXNoPath when there is no
\* path, the ValueError of route_to_gdf when the route has no edge (both
\* endpoints snap to the same node), else the geometry of the route
TryRoute(g, s, t) ==
    IF Paths(g, s, t) = {} THEN [raised |-> "NetworkXNoPath", geometry |-> <<>>]
    ELSE IF Len(shortest_path(g, s, t)) < 2 THEN [raised |-> "ValueError", geometry |-> <<>>]
    ELSE [raised |-> "", geometry |-> shortest_path(g, s, t)]

\* mutant: the handler names ValueError alone
CaughtValueErrorOnly(r) == r.raised = "ValueError"

\* except (nx.NetworkXNoPath, ValueError)
Caught(r) == r.raised \in {"NetworkXNoPath", "ValueError"}

\* lines 101-105 fail when an endpoint of the geometry is NaN
LookupFails(geometry) == DOMAIN geometry /= {1, 2}

InitRoad ==
    /\ pc = "road_start"
    /\ wkt_df \in UNION {[1 .. k -> LinkGeometries] : k \in 0 .. MaxRecords}
    /\ graph = {}
    /\ final_geometries = <<>>
    /\ road_gdf = <<>>
    /\ printed = 0
    /\ in_df = NoFrame /\ freq = 1 /\ max_gap = 1 /\ df = NoFrame /\ counts = NoCounts
    /\ in_gdf = <<>> /\ point = <<0, 0>> /\ broker_name = {} /\ n = 0
    /\ gdf = <<>> /\ result = <<>>
    /\ resampler = Idle /\ pivot = Idle /\ scenario = Idle
    /\ frames = Idle /\ pipeline = Idle /\ pager = Idle

\* lines 91-97
LoadGraph ==
    /\ pc = "road_start"
    /\ graph' \in SUBSET Streets
    /\ pc' = "road_loop"
    /\ UNCHANGED <<wkt_df, final_geometries, road_gdf, printed>>

\* one iteration of the loop, lines 100-120
RouteRecord ==
    /\ pc = "road_loop"
    /\ Len(final_geometries) < Len(wkt_df)
    /\ LET geometry == wkt_df[Len(final_geometries) + 1]
       IN  IF LookupFails(geometry)
           THEN \* the ValueError of nearest_nodes leaves the function
                /\ pc' = "road_raised"
                /\ UNCHANGED <<final_geometries, printed>>
           ELSE LET r == TryRoute(graph, nearest_nodes(geometry[1]), nearest_nodes(geometry[2]))
                IN  IF r.raised = ""
                    THEN /\ pc' = "road_loop"
                         /\ printed' = printed
                         /\ final_geometries' = Append(final_geometries, r.geometry)
                    ELSE IF Caught(r)
                    THEN \* routing failed, keeping the original straight line
                         /\ pc' = "road_loop"
                         /\ printed' = printed + 1
                         /\ final_geometries' = Append(final_geometries, geometry)
                    ELSE \* an exception the handler does not name
                         /\ pc' = "road_raised"
                         /\ UNCHANGED <<final_geometries, printed>>
    /\ UNCHANGED <<graph, wkt_df, road_gdf>>

\* lines 122-128; for a batch without records estimate_utm_crs at line 126
\* has no bounds to work from and raises
BuildGdf ==
    /\ pc = "road_loop"
    /\ Len(final_geometries) = Len(wkt_df)
    /\ IF wkt_df = <<>>
       THEN /\ road_gdf' = road_gdf
            /\ pc' = "road_raised_empty"
       ELSE /\ road_gdf' = [k \in DOMAIN final_geometries |->
                              [Location_WKT |-> wkt_df[k], geometry |-> final_geometries[k],
                               road_length |-> Length(final_geometries[k])]]
            /\ pc' = "road_done"
    /\ UNCHANGED <<graph, wkt_df, final_geometries, printed>>

-----------------------------------------------------------------------------
(* Specifications *)

NextClean ==
    \/ RemoveNegatives /\ UNCHANGED <<closestVars, roadVars, laterVars>>
    \/ RemoveOutliers /\ UNCHANGED <<closestVars, roadVars, laterVars>>
    \/ ReindexFull /\ UNCHANGED <<closestVars, roadVars, laterVars>>
    \/ InterpolateGaps /\ UNCHANGED <<closestVars, roadVars, laterVars>>

SpecClean == InitClean /\ [][NextClean]_vars

NextClosest ==
    \/ FilterByBroker /\ UNCHANGED <<cleanVars, roadVars, laterVars>>
    \/ ComputeDistance /\ UNCHANGED <<cleanVars, roadVars, laterVars>>
    \/ SortValues /\ UNCHANGED <<cleanVars, roadVars, laterVars>>
    \/ TakeFirstN /\ UNCHANGED <<cleanVars, roadVars, laterVars>>

SpecClosest == InitClosest /\ [][NextClosest]_vars

NextRoad ==
    \/ LoadGraph /\ UNCHANGED <<cleanVars, closestVars, laterVars>>
    \/ RouteRecord /\ UNCHANGED <<cleanVars, closestVars, laterVars>>
    \/ BuildGdf /\ UNCHANGED <<cleanVars, closestVars, laterVars>>

SpecRoad == InitRoad /\ [][NextRoad]_vars

-----------------------------------------------------------------------------
(* Claims about clean_data *)

\* the maximal runs of consecutive NaN positions of a frame, as <<first, last>>
NullRuns(d) ==
    {r \in (DOMAIN d.index) \X (DOMAIN d.index) :
        /\ r[1] <= r[2]
        /\ \A k \in r[1] .. r[2] : IsNa(d, d.index[k])
        /\ (r[1] = 1 \/ ~IsNa(d, d.index[r[1] - 1]))
        /\ (r[2] = Len(d.index) \/ ~IsNa(d, d.index[r[2] + 1]))}

RunLen(r) == r[2] - r[1] + 1

\* a run with a valid value right before and right after it
Bounded(d, r) == r[1] > 1 /\ r[2] < Len(d.index)

\* the null runs of df that the interpolation step leaves entirely null / fills
StaysNull(r) == \A k \in r[1] .. r[2] : IsNa(df', df.index[k])
GetsFilled(r) == \A k \in r[1] .. r[2] : ~IsNa(df', df.index[k])

\* C1 (as claimed): the interpolation of clean_data leaves every null run longer
\* than max_gap entirely null, and completely fills every null run of length
\* <= max_gap that has a valid value right before and right after it.
C1_GapLimit ==
    [][pc = "clean_interpolate" =>
        \A r \in NullRuns(df) :
            /\ RunLen(r) > max_gap => StaysNull(r)
            /\ (RunLen(r) <= max_gap /\ Bounded(df, r)) => GetsFilled(r)]_vars

\* positions with no valid value anywhere before (leading) or after (trailing)
Leading(d, k) == \A j \in 1 .. k : IsNa(d, d.index[j])
Trailing(d, k) == \A j \in k .. Len(d.index) : IsNa(d, d.index[j])

\* C2 (as claimed): clean_data never extrapolates: a leading or trailing null
\* bucket is still null after the interpolation.
C2_NoExtrapolation ==
    [][pc = "clean_interpolate" =>
        \A k \in DOMAIN df.index :
            (Leading(df, k) \/ Trailing(df, k)) => IsNa(df', df.index[k])]_vars

\* every non-null value of frame d lies within the 3*IQR bounds of column col
WithinBounds(d, col) ==
    \A t \in DOMAIN d.col :
        /\ LowerBound4(col) <= 4 * d.col[t]
        /\ 4 * d.col[t] <= UpperBound4(col)

\* C3 (as claimed): every non-null value of the output lies within
\* [Q1 - 3*IQR, Q3 + 3*IQR] of the non-null values the column had before cleaning.
C3_BoundsOfInput ==
    pc = "clean_done" => WithinBounds(df, in_df.col)

\* C3 (amended): every non-null value of the output, kept or interpolated, lies
\* within [Q1 - 3*IQR, Q3 + 3*IQR] of the non-null values of the input column
\* that are not negative.
C3_BoundsOfNonNegativeInput ==
    pc = "clean_done" => WithinBounds(df, NullNegatives(in_df).col)

\* C3 witness: a run with a negative value, where an outlier was removed and a
\* value was interpolated
C3_Witness ==
    /\ pc = "clean_done"
    /\ counts.negatives > 0
    /\ counts.outliers > 0
    /\ counts.removed > 0

\* the index is strictly increasing with constant step f
FixedStep(index, f) == \A k \in 1 .. Len(index) - 1 : index[k + 1] = index[k] + f

\* the timestamps of the index that the input did not have are NaN
NewRowsNull == \A t \in Range(df.index) \ Range(in_df.index) : IsNa(df, t)

\* C4 (as claimed): the output index is strictly increasing with constant step
\* freq, from the minimum to the maximum of the input index, and every timestamp
\* the input did not contain is a null row before interpolation.
C4_IndexSpansMinMax ==
    /\ pc \in {"clean_interpolate", "clean_done"} =>
          /\ Len(df.index) >= 1
          /\ FixedStep(df.index, freq)
          /\ df.index[1] = Min(Range(in_df.index))
          /\ df.index[Len(df.index)] = Max(Range(in_df.index))
    /\ pc = "clean_interpolate" => NewRowsNull

\* C4 (amended): the output index is strictly increasing with constant step
\* freq and starts at the minimum of the input index; its last element is the
\* last point of that grid that is not after the maximum of the input index
\* (the maximum itself when maximum - minimum is a multiple of freq); every
\* timestamp the input did not contain is a null row before interpolation.
C4_IndexGridFromMin ==
    /\ pc \in {"clean_interpolate", "clean_done"} =>
          /\ Len(df.index) >= 1
          /\ FixedStep(df.index, freq)
          /\ df.index[1] = Min(Range(in_df.index))
          /\ df.index[Len(df.index)] <= Max(Range(in_df.index))
          /\ df.index[Len(df.index)] + freq > Max(Range(in_df.index))
          /\ ((Max(Range(in_df.index)) - Min(Range(in_df.index))) % freq = 0
                 => df.index[Len(df.index)] = Max(Range(in_df.index)))
    /\ pc = "clean_interpolate" => NewRowsNull

\* C4 witness: reindexed at a frequency that does not divide the span of the
\* input, with a new timestamp between two of the input
C4_Witness ==
    /\ pc = "clean_interpolate"
    /\ (Max(Range(in_df.index)) - Min(Range(in_df.index))) % freq /= 0
    /\ Len(df.index) >= 3
    /\ Range(df.index) \ Range(in_df.index) /= {}

\* the input with the reading at t replaced by v
WithReading(d, t, v) == Frame(d.index, [d.col EXCEPT ![t] = v])

\* C5: negatives are nulled before the quartiles are taken (the frame whose
\* quartiles are taken holds no negative value), replacing a negative input
\* value by another negative value does not change the output, and no value of
\* the output is negative.
C5_NegativesFirst ==
    /\ pc = "clean_outliers" => \A t \in DOMAIN df.col : df.col[t] >= 0
    /\ pc = "clean_done" =>
          /\ \A t \in DOMAIN df.col : df.col[t] >= 0
          /\ \A t \in DOMAIN in_df.col : \A v \in NegVals :
                in_df.col[t] < 0 => CleanData(WithReading(in_df, t, v), freq, max_gap) = df

\* C5 witness: an input with a negative reading and an outlier, and an output
\* that holds values
C5_Witness ==
    /\ pc = "clean_done"
    /\ \E t \in DOMAIN in_df.col : in_df.col[t] < 0
    /\ counts.outliers > 0
    /\ DOMAIN df.col /= {}

-----------------------------------------------------------------------------
(* Claims about find_closest_sensors *)

\* the input rows whose broker is asked for
Matching == {k \in DOMAIN in_gdf : in_gdf[k].Broker_Name \in broker_name}

\* the square of the planar distance of input sensor k to the query point
PlanarDistance2(k) == Distance2(ToCrs27700(in_gdf[k].geometry), ToCrs27700(point))

MinOf(a, b) == IF a < b THEN a ELSE b

\* C6: the result names only sensors of the brokers asked for, in non-decreasing
\* planar distance to the query point; it has min(n, k) entries, k the number of
\* matching sensors, no sensor twice, and no matching sensor left out is nearer
\* than a returned one; with n > k all k candidates are returned.
C6_NearestInOrder ==
    pc = "closest_done" =>
        /\ \A j \in DOMAIN result : result[j] \in Matching
        /\ \A i, j \in DOMAIN result :
              i < j => /\ PlanarDistance2(result[i]) <= PlanarDistance2(result[j])
                       /\ result[i] /= result[j]
        /\ Len(result) = MinOf(n, Cardinality(Matching))
        /\ \A k \in Matching \ Range(result) : \A j \in DOMAIN result :
              PlanarDistance2(result[j]) <= PlanarDistance2(k)
        /\ n > Cardinality(Matching) => Range(result) = Matching

\* C6 witness: a truncated result (n smaller than the number of matching
\* sensors) over sensors at different distances, the nearest not first in the input
C6_Witness ==
    /\ pc = "closest_done"
    /\ n >= 1
    /\ n < Cardinality(Matching)
    /\ \E k \in Matching : PlanarDistance2(k) < PlanarDistance2(1)
    /\ \E k \in DOMAIN in_gdf : k \notin Matching

\* C7 (as claimed): when no input record matches the filter the call does not
\* return: it ends in EmptyResultError.
C7_EmptyResultError ==
    pc = "closest_done" => Matching /= {}

\* C8 (as claimed): sensors at the same distance keep their input order, in the
\* result and across the truncation at n.
C8_StableTies ==
    pc = "closest_done" =>
        /\ \A i, j \in DOMAIN result :
              (i < j /\ PlanarDistance2(result[i]) = PlanarDistance2(result[j]))
                  => result[i] < result[j]
        /\ \A j \in DOMAIN result : \A k \in Matching \ Range(result) :
              PlanarDistance2(result[j]) = PlanarDistance2(k) => result[j] < k

-----------------------------------------------------------------------------
(* Claims about get_road_geometries *)

\* record k has both endpoints and the graph has no path between their nodes
NoPath(k) ==
    /\ ~LookupFails(wkt_df[k])
    /\ Paths(graph, nearest_nodes(wkt_df[k][1]), nearest_nodes(wkt_df[k][2])) = {}

\* record k has both endpoints, at different nodes joined by a path
Routable(k) ==
    /\ ~LookupFails(wkt_df[k])
    /\ nearest_nodes(wkt_df[k][1]) /= nearest_nodes(wkt_df[k][2])
    /\ Paths(graph, nearest_nodes(wkt_df[k][1]), nearest_nodes(wkt_df[k][2])) /= {}

\* geometry g runs along streets of the graph from the node of a to the node of b
IsRoute(g, a, b) ==
    /\ Len(g) >= 2
    /\ g[1] = nearest_nodes(a)
    /\ g[Len(g)] = nearest_nodes(b)
    /\ \A j \in 1 .. Len(g) - 1 : <<g[j], g[j + 1]>> \in graph

\* C9: the loop resolves one geometry per record, in input order; a record
\* without a path keeps its straight line, whatever the other records are, and
\* its road length is the length of that line; a record with a path gets a
\* route; a missing path never makes the call raise.
C9_FallbackPerRecord ==
    /\ pc \in {"road_loop", "road_done"} =>
          \A k \in DOMAIN final_geometries :
              /\ NoPath(k) => final_geometries[k] = wkt_df[k]
              /\ Routable(k) => IsRoute(final_geometries[k], wkt_df[k][1], wkt_df[k][2])
    /\ pc = "road_done" =>
          /\ Len(road_gdf) = Len(wkt_df)
          /\ \A k \in DOMAIN road_gdf :
                /\ road_gdf[k].Location_WKT = wkt_df[k]
                /\ road_gdf[k].geometry = final_geometries[k]
                /\ NoPath(k) => road_gdf[k].road_length = Abs(wkt_df[k][2] - wkt_df[k][1])
    /\ pc = "road_raised" => ~NoPath(Len(final_geometries) + 1)

\* C9 witness: a returned batch of two records, one without a path and one routed
C9_Witness ==
    /\ pc = "road_done"
    /\ \E j, k \in DOMAIN road_gdf :
          /\ NoPath(j)
          /\ Routable(k)
          /\ road_gdf[k].geometry /= wkt_df[k]

\* C10 (as claimed): a failed nearest-node lookup is recovered like a missing
\* path: the call does not raise, and the record keeps its straight line.
C10_LookupFallback ==
    /\ pc /= "road_raised"
    /\ pc = "road_done" =>
          \A k \in DOMAIN road_gdf :
              LookupFails(wkt_df[k]) => road_gdf[k].geometry = wkt_df[k]

-----------------------------------------------------------------------------
(* resample_sensors_timeseries, src/data_analysis.py:55-82 *)

(***************************************************************************)
(* A long table is a sequence of rows.  A row is a record with the fields  *)
(* Timestamp, Sensor_Name, Variable, Flagged and, unless its Value is NaN, *)
(* Value.  A resampling frequency is a number of base time units and the   *)
(* bins of resample are anchored at 0, as the bins of "1h" are anchored at *)
(* midnight.                                                               *)
(***************************************************************************)

\* the number of readings of an input table
MaxReadings == 2

\* a value whose mean over up to MaxReadings readings is an integer
ReadingUnit == Fact(MaxReadings)

ReadingVals == {0, ReadingUnit}

ReadingTimes == 0 .. 2

\* the (Sensor_Name, Variable) keys of the readings, in the order groupby
\* sorts them
GroupKeys == << <<"s1", "CO">>, <<"s1", "NO2">>, <<"s2", "NO2">> >>

ReadingRows ==
    {[Timestamp |-> t, Sensor_Name |-> GroupKeys[g][1], Variable |-> GroupKeys[g][2],
      Value |-> v, Flagged |-> f] :
        t \in ReadingTimes, g \in DOMAIN GroupKeys, v \in ReadingVals, f \in BOOLEAN}
    \cup
    {[Timestamp |-> t, Sensor_Name |-> GroupKeys[g][1], Variable |-> GroupKeys[g][2],
      Flagged |-> f] :
        t \in ReadingTimes, g \in DOMAIN GroupKeys, f \in BOOLEAN}

LongTables == UNION {[1 .. k -> ReadingRows] : k \in 0 .. MaxReadings}

HasValue(row) == "Value" \in DOMAIN row

\* the left edge of the bin of resample(freq) that holds timestamp t
Bucket(t, fq) == (t \div fq) * fq

RECURSIVE SumValues(_, _)
SumValues(rows, K) ==
    IF K = {} THEN 0
    ELSE LET k == CHOOSE x \in K : TRUE
         IN  rows[k].Value + SumValues(rows, K \ {k})

\* mutant: the bins are labelled and never used to split the readings
InBucketWholeGroup(rows, key, b, fq) ==
    {k \in DOMAIN rows : rows[k].Sensor_Name = key[1] /\ rows[k].Variable = key[2]}

\* the rows of one group that fall in the bin that starts at b
InBucket(rows, key, b, fq) ==
    {k \in DOMAIN rows : /\ rows[k].Sensor_Name = key[1]
                         /\ rows[k].Variable = key[2]
                         /\ Bucket(rows[k].Timestamp, fq) = b}

\* agg({"Value": "mean", "Flagged": "max"}) of one bin: mean skips NaN and is
\* NaN when nothing is left; max of booleans is True when one of them is, and
\* NaN for a bin that holds no row of the group
AggBucket(rows, key, b, fq) ==
    LET K == InBucket(rows, key, b, fq)
        V == {k \in K : HasValue(rows[k])}
    IN  IF K = {} THEN [Timestamp |-> b, Sensor_Name |-> key[1], Variable |-> key[2]]
        ELSE IF V = {}
        THEN [Timestamp |-> b, Sensor_Name |-> key[1], Variable |-> key[2],
              Flagged |-> \E k \in K : rows[k].Flagged]
        ELSE [Timestamp |-> b, Sensor_Name |-> key[1], Variable |-> key[2],
              Flagged |-> \E k \in K : rows[k].Flagged,
              Value |-> SumValues(rows, V) \div Cardinality(V)]

\* the bins of one group: every bin from the one of its first reading to the
\* one of its last reading, the empty ones included
GroupBuckets(rows, key, fq) ==
    LET T == {rows[k].Timestamp : k \in {j \in DOMAIN rows :
                  rows[j].Sensor_Name = key[1] /\ rows[j].Variable = key[2]}}
    IN  IF T = {} THEN {}
        ELSE {b \in Bucket(Min(T), fq) .. Bucket(Max(T), fq) : Bucket(b, fq) = b}

RECURSIVE GroupResample(_, _, _)
\* lines 62-68: groupby(...).resample(freq).agg(...), the groups in key order
\* and the bins of a group in time order
GroupResample(rows, fq, g) ==
    IF g > Len(GroupKeys) THEN <<>>
    ELSE LET bs == SetToSeq(GroupBuckets(rows, GroupKeys[g], fq))
         IN  [j \in DOMAIN bs |-> AggBucket(rows, GroupKeys[g], bs[j], fq)]
             \o GroupResample(rows, fq, g + 1)

\* line 71: dropna(subset=["Value"])
DropNaValue(rows) == SelectSeq(rows, HasValue)

IsSortedByTimestamp(rows) ==
    \A a, b \in DOMAIN rows : a < b => rows[a].Timestamp <= rows[b].Timestamp

\* line 80: sort_index() with the default kind="quicksort", which does not
\* promise the order of rows with equal timestamps
SortIndexArrangements(rows) ==
    {h \in {[k \in DOMAIN rows |-> rows[p[k]]] : p \in Permutations(DOMAIN rows)} :
        IsSortedByTimestamp(h)}

InitResample ==
    /\ pc = "resample_start"
    /\ \E t \in LongTables : \E fq \in Freqs :
          resampler = [op |-> "resample_sensors_timeseries", in_df |-> t, freq |-> fq,
                       resampled_data |-> <<>>, df |-> <<>>]
    /\ in_df = NoFrame /\ freq = 1 /\ max_gap = 1 /\ df = NoFrame /\ counts = NoCounts
    /\ in_gdf = <<>> /\ point = <<0, 0>> /\ broker_name = {} /\ n = 0
    /\ gdf = <<>> /\ result = <<>>
    /\ graph = {} /\ wkt_df = <<>> /\ final_geometries = <<>> /\ road_gdf = <<>>
    /\ printed = 0
    /\ pivot = Idle /\ scenario = Idle /\ frames = Idle /\ pipeline = Idle
    /\ pager = Idle

\* lines 62-68
GroupAndAggregate ==
    /\ pc = "resample_start"
    /\ resampler' = [resampler EXCEPT
          !.resampled_data = GroupResample(resampler.in_df, resampler.freq, 1)]
    /\ pc' = "resample_dropna"

\* line 71
DropEmptyBuckets ==
    /\ pc = "resample_dropna"
    /\ resampler' = [resampler EXCEPT
          !.resampled_data = DropNaValue(resampler.resampled_data)]
    /\ pc' = "resample_sort"

\* lines 74-82
ResetAndSortIndex ==
    /\ pc = "resample_sort"
    /\ \E h \in SortIndexArrangements(resampler.resampled_data) :
          resampler' = [resampler EXCEPT !.df = h]
    /\ pc' = "resample_done"

resampleRest == <<cleanVars, closestVars, roadVars, pivot, scenario, frames, pipeline, pager>>

NextResample ==
    \/ GroupAndAggregate /\ UNCHANGED resampleRest
    \/ DropEmptyBuckets /\ UNCHANGED resampleRest
    \/ ResetAndSortIndex /\ UNCHANGED resampleRest

SpecResample == InitResample /\ [][NextResample]_vars

(* Claims about resample_sensors_timeseries *)

\* the readings of the input in the bin b of the group of (s, v)
ReadingsIn(s, v, b) ==
    {k \in DOMAIN resampler.in_df :
        /\ resampler.in_df[k].Sensor_Name = s
        /\ resampler.in_df[k].Variable = v
        /\ Bucket(resampler.in_df[k].Timestamp, resampler.freq) = b}

ValuedReadingsIn(s, v, b) == {k \in ReadingsIn(s, v, b) : HasValue(resampler.in_df[k])}

OutRows(s, v, b) ==
    {j \in DOMAIN resampler.df :
        /\ resampler.df[j].Sensor_Name = s
        /\ resampler.df[j].Variable = v
        /\ resampler.df[j].Timestamp = b}

AllKeys == {<<GroupKeys[g][1], GroupKeys[g][2]>> : g \in DOMAIN GroupKeys}

AllBuckets == {Bucket(t, resampler.freq) : t \in ReadingTimes}

\* the row of a (sensor, variable, bucket) triple holds the mean of the
\* non-null values of its readings and the OR of the flags of its readings
RowAggregates(s, v, b) ==
    \A j \in OutRows(s, v, b) :
        /\ HasValue(resampler.df[j])
        /\ resampler.df[j].Value * Cardinality(ValuedReadingsIn(s, v, b))
              = SumValues(resampler.in_df, ValuedReadingsIn(s, v, b))
        /\ resampler.df[j].Flagged
              = (\E k \in ReadingsIn(s, v, b) : resampler.in_df[k].Flagged)

\* C11 as stated: one row for each (sensor, variable, bucket) that holds at
\* least one input reading and none for the others, the row holding the mean
\* and the OR of the flags of the readings, rows in ascending timestamp order.
C11_RowPerBucketWithReading ==
    pc = "resample_done" =>
        /\ \A key \in AllKeys : \A b \in AllBuckets :
              /\ Cardinality(OutRows(key[1], key[2], b))
                    = (IF ReadingsIn(key[1], key[2], b) /= {} THEN 1 ELSE 0)
              /\ RowAggregates(key[1], key[2], b)
        /\ IsSortedByTimestamp(resampler.df)

\* C11, amended: one row for each (sensor, variable, bucket) that holds at
\* least one input reading with a non-null value and none for the others; the
\* row holds the mean of the non-null values and the OR of the flags of all
\* readings of the bucket; rows are in ascending timestamp order and every
\* row is on a bucket edge.
C11_RowPerBucketWithValue ==
    pc = "resample_done" =>
        /\ \A key \in AllKeys : \A b \in AllBuckets :
              /\ Cardinality(OutRows(key[1], key[2], b))
                    = (IF ValuedReadingsIn(key[1], key[2], b) /= {} THEN 1 ELSE 0)
              /\ RowAggregates(key[1], key[2], b)
        /\ \A j \in DOMAIN resampler.df :
              /\ <<resampler.df[j].Sensor_Name, resampler.df[j].Variable>> \in AllKeys
              /\ resampler.df[j].Timestamp \in AllBuckets
        /\ IsSortedByTimestamp(resampler.df)

\* a run where the row of a bucket averages two different values of one
\* sensor and variable and carries the flag of one of them
C11_Witness ==
    /\ pc = "resample_done"
    /\ \E key \in AllKeys : \E b \in AllBuckets :
          /\ Cardinality(ValuedReadingsIn(key[1], key[2], b)) = 2
          /\ \E j \in OutRows(key[1], key[2], b) :
                resampler.df[j].Value \notin ReadingVals /\ resampler.df[j].Flagged

-----------------------------------------------------------------------------
(* convert_long_df_to_wide, src/data_analysis.py:142-158 *)

(***************************************************************************)
(* Sensor and variable names are strings, modelled as the sequences of     *)
(* their characters, so that the + of line 153 is the concatenation of     *)
(* sequences.  A wide table is its index (the timestamps in ascending      *)
(* order), the set of its column names and its non-null cells.             *)
(***************************************************************************)

\* the number of rows of a long table handed to convert_long_df_to_wide
MaxLong == 2

SensorNames == {<<"a">>, <<"a", "_", "b">>}

VariableNames == {<<"c">>, <<"b", "_", "c">>}

PivotTimes == {0, 1}

PivotVals == {0, 1}

PivotRows ==
    {[Timestamp |-> t, Sensor_Name |-> sn, Variable |-> vn, Value |-> v, Flagged |-> FALSE] :
        t \in PivotTimes, sn \in SensorNames, vn \in VariableNames, v \in PivotVals}

PivotTables == UNION {[1 .. k -> PivotRows] : k \in 0 .. MaxLong}

\* line 153: Sensor_Name + "_" + Variable
ColumnName(row) == row.Sensor_Name \o <<"_">> \o row.Variable

\* lines 149-153: the copy of the table with the column Column_Name
WithColumnName(rows) ==
    [k \in DOMAIN rows |->
        [Timestamp |-> rows[k].Timestamp, Sensor_Name |-> rows[k].Sensor_Name,
         Variable |-> rows[k].Variable, Value |-> rows[k].Value,
         Flagged |-> rows[k].Flagged, Column_Name |-> ColumnName(rows[k])]]

\* pivot raises ValueError("Index contains duplicate entries, cannot
\* reshape") when two rows have the same index and column label
PivotDuplicates(rows) ==
    \E i, j \in DOMAIN rows :
        /\ i /= j
        /\ rows[i].Timestamp = rows[j].Timestamp
        /\ rows[i].Column_Name = rows[j].Column_Name

\* line 156: pivot(index="Timestamp", columns="Column_Name", values="Value")
Pivot(rows) ==
    [index |-> SetToSeq({rows[k].Timestamp : k \in DOMAIN rows}),
     columns |-> {rows[k].Column_Name : k \in DOMAIN rows},
     cells |-> [tc \in {<<rows[k].Timestamp, rows[k].Column_Name>> : k \in DOMAIN rows} |->
                   LET k == CHOOSE j \in DOMAIN rows :
                                <<rows[j].Timestamp, rows[j].Column_Name>> = tc
                   IN  rows[k].Value]]

NoWide == [index |-> <<>>, columns |-> {}, cells |-> <<>>]

InitPivot ==
    /\ pc = "wide_start"
    /\ \E t \in PivotTables :
          pivot = [op |-> "convert_long_df_to_wide", in_df |-> t, long_df |-> <<>>,
                   wide_df |-> NoWide, raised |-> "none"]
    /\ in_df = NoFrame /\ freq = 1 /\ max_gap = 1 /\ df = NoFrame /\ counts = NoCounts
    /\ in_gdf = <<>> /\ point = <<0, 0>> /\ broker_name = {} /\ n = 0
    /\ gdf = <<>> /\ result = <<>>
    /\ graph = {} /\ wkt_df = <<>> /\ final_geometries = <<>> /\ road_gdf = <<>>
    /\ printed = 0
    /\ resampler = Idle /\ scenario = Idle /\ frames = Idle /\ pipeline = Idle
    /\ pager = Idle

\* lines 149-153
NameColumns ==
    /\ pc = "wide_start"
    /\ pivot' = [pivot EXCEPT !.long_df = WithColumnName(pivot.in_df)]
    /\ pc' = "wide_named"

\* lines 156-158, without duplicate entries
PivotReturns ==
    /\ pc = "wide_named"
    /\ ~PivotDuplicates(pivot.long_df)
    /\ pivot' = [pivot EXCEPT !.wide_df = Pivot(pivot.long_df)]
    /\ pc' = "wide_done"

\* line 156, with duplicate entries
PivotRaises ==
    /\ pc = "wide_named"
    /\ PivotDuplicates(pivot.long_df)
    /\ pivot' = [pivot EXCEPT !.raised = "ValueError"]
    /\ pc' = "wide_raised"

pivotRest == <<cleanVars, closestVars, roadVars, resampler, scenario, frames, pipeline, pager>>

NextPivot ==
    \/ NameColumns /\ UNCHANGED pivotRest
    \/ PivotReturns /\ UNCHANGED pivotRest
    \/ PivotRaises /\ UNCHANGED pivotRest

SpecPivot == InitPivot /\ [][NextPivot]_vars

(* Claims about convert_long_df_to_wide *)

SamePair(r1, r2) == r1.Sensor_Name = r2.Sensor_Name /\ r1.Variable = r2.Variable

\* C12: in the table returned, two readings of different (sensor, variable)
\* pairs never share a column, whatever characters the names hold; there is one
\* row for each distinct input timestamp; the cell of a reading holds its value
\* and every other cell is null.
C12_ColumnPerPair ==
    pc = "wide_done" =>
        /\ \A i, j \in DOMAIN pivot.long_df :
              ~SamePair(pivot.in_df[i], pivot.in_df[j])
                  => pivot.long_df[i].Column_Name /= pivot.long_df[j].Column_Name
        /\ Range(pivot.wide_df.index) = {pivot.in_df[k].Timestamp : k \in DOMAIN pivot.in_df}
        /\ \A a, b \in DOMAIN pivot.wide_df.index :
              a < b => pivot.wide_df.index[a] < pivot.wide_df.index[b]
        /\ \A k \in DOMAIN pivot.in_df :
              pivot.wide_df.cells[<<pivot.in_df[k].Timestamp,
                                    pivot.long_df[k].Column_Name>>] = pivot.in_df[k].Value
        /\ DOMAIN pivot.wide_df.cells
              = {<<pivot.in_df[k].Timestamp, pivot.long_df[k].Column_Name>> :
                    k \in DOMAIN pivot.in_df}

DuplicateTriple ==
    \E i, j \in DOMAIN pivot.in_df :
        /\ i /= j
        /\ pivot.in_df[i].Timestamp = pivot.in_df[j].Timestamp
        /\ SamePair(pivot.in_df[i], pivot.in_df[j])

\* C13: the call fails, returning no table, exactly when the input holds two
\* readings of one (timestamp, sensor, variable) triple: it fails on every such
\* input and on no input whose triples are all distinct.
C13_FailsOnDuplicatesOnly ==
    /\ pc = "wide_raised" => DuplicateTriple /\ pivot.wide_df = NoWide
    /\ pc = "wide_done" => ~DuplicateTriple

-----------------------------------------------------------------------------
(* get_valid_scenario_dates, src/data_analysis.py:263-297 *)

(***************************************************************************)
(* The index of the table is hourly: a timestamp is the number of hours    *)
(* since a Monday 00:00.  The table is a wide table as pivot and           *)
(* clean_data return it, its index ascending without duplicates.  It has a *)
(* sequence of column names and, for each column, its non-null cells.      *)
(***************************************************************************)

\* the number of weeks the index spans
MaxWeeks == 2

HoursPerDay == 24

DaysPerWeek == 7

\* DatetimeIndex.dayofweek (Monday is 0) and DatetimeIndex.hour
DayOfWeek(t) == (t \div HoursPerDay) % DaysPerWeek
Hour(t) == t % HoursPerDay

Slot(w, day, hour) == (w * DaysPerWeek + day) * HoursPerDay + hour

\* the timestamps an index is drawn from: the Monday 10:00 and the Thursday
\* 17:00 of every week, and a Monday 17:00 and a Thursday 16:00
ScenarioTimes ==
    {Slot(w, 0, 10) : w \in 0 .. MaxWeeks - 1} \cup {Slot(w, 3, 17) : w \in 0 .. MaxWeeks - 1}
    \cup {Slot(0, 0, 17), Slot(0, 3, 16)}

ScenarioVals == {1, 2}

Suffix == <<"_", "N">>

\* the column names of a table: the first ends with the suffix, the second
\* does not, the third does
ColNO2a == <<"a", "_", "N">>
ColCOa == <<"a", "_", "C">>
ColNO2b == <<"b", "_", "N">>

ColumnLists == {<<ColNO2a>>, <<ColCOa>>, <<ColCOa, ColNO2a>>, <<ColNO2a, ColNO2b>>}

\* str.endswith
EndsWith(name, suffix) ==
    /\ Len(suffix) <= Len(name)
    /\ \A k \in DOMAIN suffix : name[Len(name) - Len(suffix) + k] = suffix[k]

\* lines 280, 289: df[(df.index.dayofweek == day) & (df.index.hour == hour)]
SlotRows(d, day, hour) ==
    {t \in Range(d.index) : DayOfWeek(t) = day /\ Hour(t) = hour}

\* lines 281, 290: dropna(subset=[check_col])
ValidRows(d, col, rows) == {t \in rows : t \in DOMAIN d.cells[col]}

\* mutant: the first row with data instead of the row with the greatest value
IdxMaxAsFirst(d, col, rows) == Min(rows)

\* line 286: idxmax(), the first row that holds the greatest value
IdxMax(d, col, rows) ==
    Min({t \in rows : \A u \in rows : d.cells[col][u] <= d.cells[col][t]})

\* line 271: the positions of the columns that end with the suffix
RelevantCols(d, suffix) == {c \in DOMAIN d.columns : EndsWith(d.columns[c], suffix)}

\* a table whose first column that ends with the suffix (its first column
\* when none does) holds the cells col and whose other columns hold the
\* value 2 on the rows of other
ScenarioTable(idx, cols, col, other) ==
    LET rel == {c \in DOMAIN cols : EndsWith(cols[c], Suffix)}
        first == IF rel = {} THEN 1 ELSE Min(rel)
    IN  [index |-> SetToSeq(idx), columns |-> cols,
         cells |-> [c \in DOMAIN cols |-> IF c = first THEN col ELSE [t \in other |-> 2]]]

InitScenario ==
    /\ pc = "scenario_start"
    /\ \E idx \in SUBSET ScenarioTimes : \E valid \in SUBSET idx :
       \E col \in [valid -> ScenarioVals] : \E cols \in ColumnLists :
       \E other \in {{}, idx} :
          scenario = [op |-> "get_valid_scenario_dates",
                      df |-> ScenarioTable(idx, cols, col, other),
                      variable_suffix |-> Suffix,
                      check_col |-> 0, worst_case_date |-> <<>>,
                      returned |-> <<>>, raised |-> "none", error |-> "none"]
    /\ in_df = NoFrame /\ freq = 1 /\ max_gap = 1 /\ df = NoFrame /\ counts = NoCounts
    /\ in_gdf = <<>> /\ point = <<0, 0>> /\ broker_name = {} /\ n = 0
    /\ gdf = <<>> /\ result = <<>>
    /\ graph = {} /\ wkt_df = <<>> /\ final_geometries = <<>> /\ road_gdf = <<>>
    /\ printed = 0
    /\ resampler = Idle /\ pivot = Idle /\ frames = Idle /\ pipeline = Idle
    /\ pager = Idle

\* lines 271-277
SelectCheckColumn ==
    /\ pc = "scenario_start"
    /\ IF RelevantCols(scenario.df, scenario.variable_suffix) = {}
       THEN /\ scenario' = [scenario EXCEPT !.raised = "No columns found with suffix",
                                             !.error = "Exception"]
            /\ pc' = "scenario_raised"
       ELSE /\ scenario' = [scenario EXCEPT
                  !.check_col = Min(RelevantCols(scenario.df, scenario.variable_suffix))]
            /\ pc' = "scenario_thursday"

\* lines 280-286
FindWorstCase ==
    /\ pc = "scenario_thursday"
    /\ LET valid_thurs == ValidRows(scenario.df, scenario.check_col,
                                    SlotRows(scenario.df, 3, 17))
       IN  IF valid_thurs = {}
           THEN /\ scenario' = [scenario EXCEPT
                      !.raised = "No valid data found for any Thursday at 17:00",
                      !.error = "Exception"]
                /\ pc' = "scenario_raised"
           ELSE /\ scenario' = [scenario EXCEPT !.worst_case_date =
                      <<IdxMax(scenario.df, scenario.check_col, valid_thurs)>>]
                /\ pc' = "scenario_monday"

\* lines 289-297
FindComparison ==
    /\ pc = "scenario_monday"
    /\ LET valid_mon == ValidRows(scenario.df, scenario.check_col,
                                  SlotRows(scenario.df, 0, 10))
       IN  IF valid_mon = {}
           THEN /\ scenario' = [scenario EXCEPT
                      !.raised = "No valid data found for any Monday at 10:00",
                      !.error = "Exception"]
                /\ pc' = "scenario_raised"
           ELSE /\ scenario' = [scenario EXCEPT !.returned =
                      <<scenario.worst_case_date[1], Min(valid_mon)>>]
                /\ pc' = "scenario_done"

scenarioRest == <<cleanVars, closestVars, roadVars, resampler, pivot, frames, pipeline, pager>>

NextScenario ==
    \/ SelectCheckColumn /\ UNCHANGED scenarioRest
    \/ FindWorstCase /\ UNCHANGED scenarioRest
    \/ FindComparison /\ UNCHANGED scenarioRest

SpecScenario == InitScenario /\ [][NextScenario]_vars

(* Claims about get_valid_scenario_dates *)

\* the column the dates are read from: the first one that ends with the suffix
MatchingCols == RelevantCols(scenario.df, scenario.variable_suffix)

MatchingCol == Min(MatchingCols)

IsThursday17(t) == DayOfWeek(t) = 3 /\ Hour(t) = 17

IsMonday10(t) == DayOfWeek(t) = 0 /\ Hour(t) = 10

HasData(t) == MatchingCols /= {} /\ t \in DOMAIN scenario.df.cells[MatchingCol]

Thursdays == {t \in Range(scenario.df.index) : IsThursday17(t) /\ HasData(t)}

Mondays == {t \in Range(scenario.df.index) : IsMonday10(t) /\ HasData(t)}

ScenarioEnded == pc \in {"scenario_done", "scenario_raised"}

\* C14: when a Thursday-17:00 row and a Monday-10:00 row have data in the
\* matching column, the call returns (worst, baseline): worst is a
\* Thursday-17:00 row with data whose value is the greatest of all such rows,
\* baseline is the earliest Monday-10:00 row with data.
C14_WorstAndBaseline ==
    (ScenarioEnded /\ MatchingCols /= {} /\ Thursdays /= {} /\ Mondays /= {}) =>
        /\ pc = "scenario_done"
        /\ Len(scenario.returned) = 2
        /\ scenario.returned[1] \in Thursdays
        /\ \A t \in Thursdays :
              scenario.df.cells[MatchingCol][t]
                 <= scenario.df.cells[MatchingCol][scenario.returned[1]]
        /\ scenario.returned[2] \in Mondays
        /\ \A t \in Mondays : scenario.returned[2] <= t

\* a return where the greatest Thursday is not the first one with data and the
\* first Monday 10:00 of the index is null
C14_Witness ==
    /\ pc = "scenario_done"
    /\ \E t \in Thursdays : t < scenario.returned[1]
    /\ \E t \in Range(scenario.df.index) :
          IsMonday10(t) /\ ~HasData(t) /\ t < scenario.returned[2]

\* C15: when no Thursday-17:00 row or no Monday-10:00 row has data in the
\* matching column, the call fails with a NoDataError whose message names the
\* day and hour searched, and returns nothing; no pair or part of one is
\* returned before the call ends.
C15_NoDataRaises ==
    /\ (ScenarioEnded /\ Thursdays = {}) =>
          /\ pc = "scenario_raised"
          /\ scenario.error = "NoDataError"
          /\ scenario.raised = "No valid data found for any Thursday at 17:00"
    /\ (ScenarioEnded /\ Thursdays /= {} /\ Mondays = {}) =>
          /\ pc = "scenario_raised"
          /\ scenario.error = "NoDataError"
          /\ scenario.raised = "No valid data found for any Monday at 10:00"
    /\ pc /= "scenario_done" => scenario.returned = <<>>

\* what the call does instead: it raises a plain Exception, the class of every
\* failure of the call; on a table with a matching column the message names
\* the day and hour without data, on a table without one it names the suffix
ScenarioRaisesException ==
    /\ (ScenarioEnded /\ MatchingCols = {}) =>
          /\ pc = "scenario_raised"
          /\ scenario.raised = "No columns found with suffix"
    /\ (ScenarioEnded /\ MatchingCols /= {} /\ Thursdays = {}) =>
          /\ pc = "scenario_raised"
          /\ scenario.raised = "No valid data found for any Thursday at 17:00"
    /\ (ScenarioEnded /\ Thursdays /= {} /\ Mondays = {}) =>
          /\ pc = "scenario_raised"
          /\ scenario.raised = "No valid data found for any Monday at 10:00"
    /\ pc = "scenario_raised" <=> scenario.error = "Exception"
    /\ pc /= "scenario_done" => scenario.returned = <<>>

-----------------------------------------------------------------------------
(* The tables the core stages are handed: objects, copies and updates in     *)
(* place (find_closest_sensors, convert_long_df_to_wide, clean_data,         *)
(* decompose_timeseries, get_road_geometries)                                *)

(***************************************************************************)
(* A Python name holds a reference to a table object.  The heap is the     *)
(* sequence of the table objects alive during a call; object 1 is the      *)
(* table of the caller, which the parameter of the stage refers to when    *)
(* the call starts.  Each statement of a stage either binds the local name *)
(* to a new object made from the one it refers to (copy, boolean indexing, *)
(* reset_index, pivot, reindex, interpolate, the MSTL fit, the             *)
(* GeoDataFrame constructor, concat) or updates the object the local name  *)
(* refers to (inplace=True, item assignment).  Of a table the model keeps  *)
(* its columns, the order of its rows, its CRS, the name of its index and  *)
(* the rows whose values were nulled.                                      *)
(***************************************************************************)

\* the number of stages that are handed the same table, one after the other
MaxCalls == 2

RowLabels == {1, 2, 3}

\* the short tables of a caller: rows in any order, some of them null, with or
\* without a CRS, the index named Timestamp or without a name
ShortSeriesTables ==
    {t \in [columns : {{"Value"}},
            rows : UNION {[1 .. k -> RowLabels] : k \in 0 .. Cardinality(RowLabels)},
            crs : {"EPSG:4326", "None"}, index_name : {"Timestamp", "None"},
            nulled : SUBSET RowLabels] :
        /\ \A i, j \in DOMAIN t.rows : i /= j => t.rows[i] /= t.rows[j]
        /\ t.nulled \subseteq Range(t.rows)}

\* the periods of the decomposition, line 242
Periods == {24, 168, 730}

\* MSTL leaves out the periods that are not below half the length of the series
KeptPeriods(nobs) == {p \in Periods : 2 * p < nobs}

\* lengths of series around which the periods kept change
SeriesLengths == {2 * 24, 2 * 24 + 1, 2 * 168 + 1, 2 * 730 + 1}

\* tables long enough to decompose: rows 1 .. len, ascending or descending,
\* complete or with a null row inside
LongSeriesTables ==
    {[columns |-> {"Value"},
      rows |-> IF asc THEN [k \in 1 .. len |-> k] ELSE [k \in 1 .. len |-> len + 1 - k],
      crs |-> c, index_name |-> i, nulled |-> u] :
        len \in SeriesLengths, asc \in BOOLEAN, c \in {"EPSG:4326", "None"},
        i \in {"Timestamp", "None"}, u \in {{}, {2}}}

CallerTables == ShortSeriesTables \cup LongSeriesTables

\* the labels of S in ascending order
SortLabels(S) == SelectSeq([k \in 1 .. Max(SeriesLengths) |-> k], LAMBDA x : x \in S)

Stages == {"find_closest_sensors", "convert_long_df_to_wide", "clean_data",
           "decompose_timeseries", "get_road_geometries"}

\* the statements of each stage that make or update a table, in order
Program(stage) ==
    CASE stage = "find_closest_sensors" ->
           \* lines 37, 38, 40-43, 45, 46, 49-53
           <<"copy", "filter_by_broker_name", "to_crs", "set_Distance", "sort_values",
             "to_list">>
      [] stage = "convert_long_df_to_wide" ->
           \* lines 149, 151, 153, 156
           <<"copy", "reset_index", "set_Column_Name", "pivot">>
      [] stage = "clean_data" ->
           \* lines 178, 183, 196, 202-203, 204, 206
           <<"copy", "mask_negatives", "mask_outliers", "reindex", "set_index_name",
             "interpolate_time">>
      [] stage = "decompose_timeseries" ->
           \* lines 239, 242-247, 257, 259
           <<"interpolate_linear", "MSTL", "rename", "concat">>
      [] stage = "get_road_geometries" ->
           \* lines 123, 126
           <<"GeoDataFrame", "set_road_length">>

\* mutant: copy() hands back the object it was called on
NewObjectOpsCopyAliases ==
    {"filter_by_broker_name", "to_list", "reset_index", "pivot", "reindex",
     "interpolate_time", "interpolate_linear", "MSTL", "concat", "GeoDataFrame"}

\* the statements whose result is a new object; the others (inplace=True and
\* item assignments) update the object the local name refers to
NewObjectOps ==
    {"copy", "filter_by_broker_name", "to_list", "reset_index", "pivot", "reindex",
     "interpolate_time", "interpolate_linear", "MSTL", "concat", "GeoDataFrame"}

\* the columns of the seasonal components, and their names at line 257
SeasonalName(p) ==
    CASE p = 24 -> "seasonal_24" [] p = 168 -> "seasonal_168" [] p = 730 -> "seasonal_730"

Renamed(c) ==
    CASE c = "seasonal_24" -> "Daily"
      [] c = "seasonal_168" -> "Weekly"
      [] c = "seasonal_730" -> "Monthly"
      [] OTHER -> c

\* the statements that raise on a table: to_crs of geometries without a CRS
\* (lines 40, 43), pivot without the column Timestamp (line 156), date_range
\* between the NaT bounds of an index without rows (line 202), estimate_utm_crs
\* of a frame without geometries (line 126), the fit of MSTL with no period
\* kept (line 243), rename(columns=...) of a Series (line 257)
Raises(o, t) ==
    \/ o = "MSTL" /\ KeptPeriods(Len(t.rows)) = {}
    \/ o = "rename" /\ "seasonal" \in t.columns
    \/ o = "to_crs" /\ t.crs = "None"
    \/ o = "pivot" /\ "Timestamp" \notin t.columns
    \/ o = "reindex" /\ t.rows = <<>>
    \/ o = "set_road_length" /\ t.rows = <<>>

\* what a statement that does not raise makes of a table
Apply(o, t) ==
    CASE o = "copy" -> t
      [] o = "filter_by_broker_name" ->
           [t EXCEPT !.rows = SelectSeq(t.rows, LAMBDA r : r /= 3),
                     !.nulled = @ \ {3}]
      [] o = "to_crs" -> [t EXCEPT !.crs = "EPSG:27700"]
      [] o = "set_Distance" -> [t EXCEPT !.columns = @ \cup {"Distance"}]
      [] o = "sort_values" -> [t EXCEPT !.rows = SortLabels(Range(t.rows))]
      [] o = "to_list" -> [t EXCEPT !.columns = {"Sensor_Name"}]
      \* reset_index names the column of an index without a name "index"
      [] o = "reset_index" ->
           [t EXCEPT !.columns = @ \cup {IF t.index_name = "None" THEN "index"
                                         ELSE t.index_name},
                     !.index_name = "None"]
      [] o = "set_Column_Name" -> [t EXCEPT !.columns = @ \cup {"Column_Name"}]
      [] o = "pivot" -> [t EXCEPT !.columns = {"Column_Name"},
                                  !.rows = SortLabels(Range(t.rows)),
                                  !.index_name = "Timestamp"]
      [] o = "mask_negatives" -> [t EXCEPT !.nulled = @ \cup (Range(t.rows) \cap {1})]
      [] o = "mask_outliers" -> [t EXCEPT !.nulled = @ \cup (Range(t.rows) \cap {2})]
      \* the rows of the full index, which has no name; the rows the table did
      \* not have are null
      [] o = "reindex" ->
           LET sorted == SortLabels(Range(t.rows))
               full == sorted[1] .. sorted[Len(sorted)]
           IN  [t EXCEPT !.rows = [k \in 1 .. Cardinality(full) |-> sorted[1] + k - 1],
                         !.nulled = @ \cup (full \ Range(t.rows)),
                         !.index_name = "None"]
      [] o = "set_index_name" -> [t EXCEPT !.index_name = "Timestamp"]
      \* line 206, limit=max_gap (24 by default), limit_direction="both": a
      \* null row is filled when a row with a value is within the limit
      [] o = "interpolate_time" ->
           [t EXCEPT !.nulled = {r \in @ : \A v \in Range(t.rows) \ t.nulled :
                                              Abs(v - r) > 24}]
      \* line 239, forward only: the null rows before the first value stay
      [] o = "interpolate_linear" ->
           [t EXCEPT !.nulled = {t.rows[i] : i \in {j \in DOMAIN t.rows :
                                     \A k \in 1 .. j : t.rows[k] \in t.nulled}}]
      \* the components for the periods kept; the seasonal component of a single
      \* period is a Series named seasonal
      [] o = "MSTL" ->
           [t EXCEPT !.columns =
               {"trend", "resid"} \cup
               (IF Cardinality(KeptPeriods(Len(t.rows))) = 1 THEN {"seasonal"}
                ELSE {SeasonalName(p) : p \in KeptPeriods(Len(t.rows))})]
      [] o = "rename" -> [t EXCEPT !.columns = {Renamed(c) : c \in @}]
      [] o = "concat" -> [t EXCEPT !.columns = @ \cup {"Original"}]
      [] o = "GeoDataFrame" -> [t EXCEPT !.columns = @ \cup {"geometry"},
                                         !.crs = "EPSG:4326"]
      [] o = "set_road_length" -> [t EXCEPT !.columns = @ \cup {"road_length(m)"}]

\* what the caller holds of a stage that raised
NoReturn == [columns |-> {}, rows |-> <<>>, crs |-> "None", index_name |-> "None",
             nulled |-> {}]

InitStages ==
    /\ pc = "stages_idle"
    /\ \E t \in CallerTables :
          frames = [op |-> "stages", heap |-> <<t>>, passed |-> t, stage |-> "none",
                    local |-> 1, ip |-> 1, returned |-> <<>>]
    /\ in_df = NoFrame /\ freq = 1 /\ max_gap = 1 /\ df = NoFrame /\ counts = NoCounts
    /\ in_gdf = <<>> /\ point = <<0, 0>> /\ broker_name = {} /\ n = 0
    /\ gdf = <<>> /\ result = <<>>
    /\ graph = {} /\ wkt_df = <<>> /\ final_geometries = <<>> /\ road_gdf = <<>>
    /\ printed = 0
    /\ resampler = Idle /\ pivot = Idle /\ scenario = Idle /\ pipeline = Idle
    /\ pager = Idle

\* the call of a stage: its parameter refers to the table of the caller
CallStage ==
    /\ pc = "stages_idle"
    /\ Len(frames.returned) < MaxCalls
    /\ \E st \in Stages : frames' = [frames EXCEPT !.stage = st, !.local = 1, !.ip = 1]
    /\ pc' = "stages_running"

\* a statement that binds the local name to a new table
StepNewObject ==
    /\ pc = "stages_running"
    /\ frames.ip <= Len(Program(frames.stage))
    /\ Program(frames.stage)[frames.ip] \in NewObjectOps
    /\ ~Raises(Program(frames.stage)[frames.ip], frames.heap[frames.local])
    /\ frames' = [frames EXCEPT
          !.heap = Append(@, Apply(Program(frames.stage)[frames.ip], @[frames.local])),
          !.local = Len(frames.heap) + 1,
          !.ip = @ + 1]
    /\ pc' = pc

\* a statement that updates the table the local name refers to
StepInPlace ==
    /\ pc = "stages_running"
    /\ frames.ip <= Len(Program(frames.stage))
    /\ Program(frames.stage)[frames.ip] \notin NewObjectOps
    /\ ~Raises(Program(frames.stage)[frames.ip], frames.heap[frames.local])
    /\ frames' = [frames EXCEPT
          !.heap[frames.local] = Apply(Program(frames.stage)[frames.ip], @),
          !.ip = @ + 1]
    /\ pc' = pc

\* a statement that raises: the stage returns nothing, its locals die
StepRaises ==
    /\ pc = "stages_running"
    /\ frames.ip <= Len(Program(frames.stage))
    /\ Raises(Program(frames.stage)[frames.ip], frames.heap[frames.local])
    /\ frames' = [frames EXCEPT
          !.returned = Append(@, [stage |-> frames.stage, raised |-> TRUE,
                                  table |-> NoReturn]),
          !.heap = <<@[1]>>,
          !.local = 1]
    /\ pc' = "stages_idle"

\* the return of the stage: its locals die, the table of the caller stays
ReturnStage ==
    /\ pc = "stages_running"
    /\ frames.ip > Len(Program(frames.stage))
    /\ frames' = [frames EXCEPT
          !.returned = Append(@, [stage |-> frames.stage, raised |-> FALSE,
                                  table |-> frames.heap[frames.local]]),
          !.heap = <<@[1]>>,
          !.local = 1]
    /\ pc' = "stages_idle"

stagesRest == <<cleanVars, closestVars, roadVars, resampler, pivot, scenario, pipeline, pager>>

NextStages ==
    \/ CallStage /\ UNCHANGED stagesRest
    \/ StepNewObject /\ UNCHANGED stagesRest
    \/ StepInPlace /\ UNCHANGED stagesRest
    \/ StepRaises /\ UNCHANGED stagesRest
    \/ ReturnStage /\ UNCHANGED stagesRest

SpecStages == InitStages /\ [][NextStages]_vars

(* Claims about the tables the stages are handed *)

RECURSIVE Outcome(_, _, _)
\* what a stage does for a table: its statements applied one after the other,
\* up to the first that raises
Outcome(prog, k, t) ==
    IF k > Len(prog) THEN [raised |-> FALSE, table |-> t]
    ELSE IF Raises(prog[k], t) THEN [raised |-> TRUE, table |-> NoReturn]
    ELSE Outcome(prog, k + 1, Apply(prog[k], t))

\* C17: during and after the call of a core stage the table it was handed has
\* the rows, row order, columns, values, index and CRS it had before the call;
\* so when the same table is handed to two stages one after the other, each
\* returns (or raises) what it does for the table as it was first passed,
\* whichever stage ran first.
C17_InputUntouched ==
    pc \in {"stages_idle", "stages_running"} =>
        /\ frames.heap[1] = frames.passed
        /\ \A k \in DOMAIN frames.returned :
              LET o == Outcome(Program(frames.returned[k].stage), 1, frames.passed)
              IN  /\ frames.returned[k].raised = o.raised
                  /\ frames.returned[k].table = o.table

\* two different stages have returned for the same table, the first of them
\* after updating its local table in place, on a table with a CRS, descending
\* rows, a null row, rows that get filtered and nulled, and a length that
\* keeps two periods of the decomposition
C17_Witness ==
    /\ pc = "stages_idle"
    /\ Len(frames.returned) = 2
    /\ frames.returned[1].stage \in {"find_closest_sensors", "clean_data"}
    /\ frames.returned[2].stage \in {"get_road_geometries", "convert_long_df_to_wide",
                                     "decompose_timeseries"}
    /\ ~frames.returned[1].raised
    /\ ~frames.returned[2].raised
    /\ frames.returned[1].table.rows /= frames.passed.rows
    /\ Len(frames.passed.rows) > 2 * 168
    /\ frames.passed.rows[1] /= 1
    /\ frames.passed.nulled = {2}
    /\ frames.passed.crs = "EPSG:4326"

-----------------------------------------------------------------------------
(* main, src/main.py:45-65: the tables of the time-series pipeline *)

(***************************************************************************)
(* Of a table of main the model keeps the sensors it has data of and the   *)
(* functions it went through, in order.                                    *)
(***************************************************************************)

AirSensors == {"a1", "a2"}

VehicleSensors == {"v1", "v2"}

\* the lists find_closest_sensors returns: sensor names, none twice
SensorLists(S) ==
    {q \in UNION {[1 .. k -> S] : k \in 0 .. Cardinality(S)} :
        \A i, j \in DOMAIN q : i /= j => q[i] /= q[j]}

NoTable == [by |-> <<>>, sensors |-> {}]

\* import_archive_dataset (src/data_analysis.py:213-230): the rows of the
\* archive, of the listed sensors only when the list is not empty
ImportArchive(archive, sensors) ==
    [by |-> <<"import_archive_dataset">>,
     sensors |-> IF Len(sensors) /= 0 THEN archive \cap Range(sensors) ELSE archive]

Through(t, stage) == [t EXCEPT !.by = Append(@, stage)]

\* line 58: pd.concat([...], axis=1), the columns of both tables
Concat(t1, t2) == [by |-> Append(t2.by, "pd.concat"), sensors |-> t1.sensors \cup t2.sensors]

InitMain ==
    /\ pc = "main_import"
    /\ \E aq \in SensorLists(AirSensors) : \E vs \in SensorLists(VehicleSensors) :
       \E aa \in SUBSET AirSensors : \E ta \in SUBSET VehicleSensors :
          /\ ImportArchive(aa, aq).sensors /= {}
          /\ ImportArchive(ta, vs).sensors /= {}
          /\ pipeline = [op |-> "main", air_quality_sensors |-> aq, vehicle_sensors |-> vs,
                         air_archive |-> aa, traffic_archive |-> ta,
                         air_quality_timeseries |-> NoTable,
                         traffic_timeseries |-> NoTable,
                         combined_df |-> NoTable,
                         correlation_arg |-> NoTable,
                         decompose_arg |-> NoTable,
                         raised |-> "none"]
    /\ in_df = NoFrame /\ freq = 1 /\ max_gap = 1 /\ df = NoFrame /\ counts = NoCounts
    /\ in_gdf = <<>> /\ point = <<0, 0>> /\ broker_name = {} /\ n = 0
    /\ gdf = <<>> /\ result = <<>>
    /\ graph = {} /\ wkt_df = <<>> /\ final_geometries = <<>> /\ road_gdf = <<>>
    /\ printed = 0
    /\ resampler = Idle /\ pivot = Idle /\ scenario = Idle /\ frames = Idle
    /\ pager = Idle

\* lines 48-50
ImportArchives ==
    /\ pc = "main_import"
    /\ pipeline' = [pipeline EXCEPT
          !.air_quality_timeseries =
              ImportArchive(pipeline.air_archive, pipeline.air_quality_sensors),
          !.traffic_timeseries =
              ImportArchive(pipeline.traffic_archive, pipeline.vehicle_sensors)]
    /\ pc' = "main_resample"

\* lines 52-53
ResampleBoth ==
    /\ pc = "main_resample"
    /\ pipeline' = [pipeline EXCEPT
          !.air_quality_timeseries = Through(@, "resample_sensors_timeseries"),
          !.traffic_timeseries = Through(@, "resample_sensors_timeseries")]
    /\ pc' = "main_wide"

\* lines 55-56
ConvertBoth ==
    /\ pc = "main_wide"
    /\ pipeline' = [pipeline EXCEPT
          !.air_quality_timeseries = Through(@, "convert_long_df_to_wide"),
          !.traffic_timeseries = Through(@, "convert_long_df_to_wide")]
    /\ pc' = "main_clean"

\* lines 58-59
ConcatAndClean ==
    /\ pc = "main_clean"
    /\ pipeline' = [pipeline EXCEPT
          !.combined_df = Through(Concat(pipeline.air_quality_timeseries,
                                         pipeline.traffic_timeseries), "clean_data")]
    /\ pc' = "main_correlate"

\* lines 60-63
Correlate ==
    /\ pc = "main_correlate"
    /\ pipeline' = [pipeline EXCEPT !.correlation_arg = pipeline.combined_df]
    /\ pc' = "main_decompose"

\* line 65: the column of the first vehicle sensor of traffic_timeseries
Decompose ==
    /\ pc = "main_decompose"
    /\ IF Len(pipeline.vehicle_sensors) = 0
       THEN /\ pipeline' = [pipeline EXCEPT !.raised = "IndexError"]
            /\ pc' = "main_raised"
       ELSE IF pipeline.vehicle_sensors[1] \notin pipeline.traffic_timeseries.sensors
       THEN /\ pipeline' = [pipeline EXCEPT !.raised = "KeyError"]
            /\ pc' = "main_raised"
       ELSE /\ pipeline' = [pipeline EXCEPT !.decompose_arg =
                  [by |-> pipeline.traffic_timeseries.by,
                   sensors |-> {pipeline.vehicle_sensors[1]}]]
            /\ pc' = "main_done"

mainRest == <<cleanVars, closestVars, roadVars, resampler, pivot, scenario, frames, pager>>

NextMain ==
    \/ ImportArchives /\ UNCHANGED mainRest
    \/ ResampleBoth /\ UNCHANGED mainRest
    \/ ConvertBoth /\ UNCHANGED mainRest
    \/ ConcatAndClean /\ UNCHANGED mainRest
    \/ Correlate /\ UNCHANGED mainRest
    \/ Decompose /\ UNCHANGED mainRest

SpecMain == InitMain /\ [][NextMain]_vars

(* Claims about main *)

\* stage a comes before stage b in the history of table t
Before(t, a, b) ==
    \E i, j \in DOMAIN t.by : i < j /\ t.by[i] = a /\ t.by[j] = b

CleanedInOrder(t) ==
    /\ Before(t, "resample_sensors_timeseries", "convert_long_df_to_wide")
    /\ Before(t, "convert_long_df_to_wide", "clean_data")

\* C18: the table handed to create_correlation_matrix and the series handed to
\* decompose_timeseries have gone through the Resampler, the Shape Transformer
\* and the Cleaner, in that order.
C18_CleanedBeforeUse ==
    /\ pipeline.op = "main" /\ pipeline.correlation_arg /= NoTable
          => CleanedInOrder(pipeline.correlation_arg)
    /\ pipeline.op = "main" /\ pipeline.decompose_arg /= NoTable
          => CleanedInOrder(pipeline.decompose_arg)

-----------------------------------------------------------------------------
(* get_sensor_timeseries, src/uo_api_interface.py:79-127 *)

(***************************************************************************)
(* The server holds the readings of the sensor in order; reading number k  *)
(* is modelled by k.  The page served for an offset holds the readings     *)
(* that follow the offset, at most limit of them; how many is the choice   *)
(* of the server, as is a response that is not OK.  The model keeps the    *)
(* log of the offsets requested and of the sizes of the pages served.      *)
(***************************************************************************)

\* line 90
limit == 1000

\* the server serves at most MaxPages - 1 full pages before a page that is
\* short or empty
MaxPages == 3

\* the page of a response: the readings offset + 1 .. offset + size
ServedPage(offset, size) == [k \in 1 .. size |-> offset + k]

\* mutant: the offset is never advanced
NextOffsetStays(offset, lim) == offset

\* line 119: offset += limit
NextOffset(offset, lim) == offset + lim

InitPager ==
    /\ pc = "pager_loop"
    /\ pager = [op |-> "get_sensor_timeseries", offset |-> 0, all_readings |-> <<>>,
                requests |-> <<>>, sizes |-> <<>>, returned |-> <<>>, raised |-> "none"]
    /\ in_df = NoFrame /\ freq = 1 /\ max_gap = 1 /\ df = NoFrame /\ counts = NoCounts
    /\ in_gdf = <<>> /\ point = <<0, 0>> /\ broker_name = {} /\ n = 0
    /\ gdf = <<>> /\ result = <<>>
    /\ graph = {} /\ wkt_df = <<>> /\ final_geometries = <<>> /\ road_gdf = <<>>
    /\ printed = 0
    /\ resampler = Idle /\ pivot = Idle /\ scenario = Idle /\ frames = Idle
    /\ pipeline = Idle

\* lines 95-106: a request answered with a response that is not OK
FetchFails ==
    /\ pc = "pager_loop"
    /\ pager' = [pager EXCEPT !.requests = Append(@, pager.offset),
                              !.raised = "ValueError"]
    /\ pc' = "pager_raised"

\* lines 95-119: a request answered with a page of size readings
FetchPage ==
    /\ pc = "pager_loop"
    /\ \E size \in 0 .. limit :
          /\ size = limit => Len(pager.sizes) < MaxPages - 1
          /\ LET readings == ServedPage(pager.offset, size)
             IN  IF readings = <<>>
                 THEN /\ pager' = [pager EXCEPT !.requests = Append(@, pager.offset),
                                                !.sizes = Append(@, size)]
                      /\ pc' = "pager_return"
                 ELSE IF Len(readings) < limit
                 THEN /\ pager' = [pager EXCEPT !.requests = Append(@, pager.offset),
                                                !.sizes = Append(@, size),
                                                !.all_readings = @ \o readings]
                      /\ pc' = "pager_return"
                 ELSE /\ pager' = [pager EXCEPT !.requests = Append(@, pager.offset),
                                                !.sizes = Append(@, size),
                                                !.all_readings = @ \o readings,
                                                !.offset = NextOffset(@, limit)]
                      /\ pc' = "pager_loop"

\* lines 121-127: the table of all_readings, empty when there are none
ReturnReadings ==
    /\ pc = "pager_return"
    /\ pager' = [pager EXCEPT !.returned = pager.all_readings]
    /\ pc' = "pager_done"

pagerRest == <<cleanVars, closestVars, roadVars, resampler, pivot, scenario, frames, pipeline>>

NextPager ==
    \/ FetchFails /\ UNCHANGED pagerRest
    \/ FetchPage /\ UNCHANGED pagerRest
    \/ ReturnReadings /\ UNCHANGED pagerRest

SpecPager == InitPager /\ [][NextPager]_vars

\* the function runs to its end: a step that can be taken is taken
SpecPagerFair == SpecPager /\ WF_vars(NextPager)

(* Claims about get_sensor_timeseries *)

RECURSIVE FetchedPages(_)
\* the pages served for the first k requests, one after the other
FetchedPages(k) ==
    IF k = 0 THEN <<>>
    ELSE FetchedPages(k - 1) \o ServedPage(pager.requests[k], pager.sizes[k])

PagerSafe ==
    \* the offsets requested are 0, limit, 2*limit, ... in that order
    /\ \A i \in DOMAIN pager.requests : pager.requests[i] = (i - 1) * limit
    \* a page was served for every request but one answered with a failure
    /\ Len(pager.sizes) = Len(pager.requests) - (IF pc = "pager_raised" THEN 1 ELSE 0)
    \* every page before the last one served is full
    /\ \A i \in DOMAIN pager.sizes : i < Len(pager.sizes) => pager.sizes[i] = limit
    \* the loop goes on after a full page and stops after a short or empty one
    /\ pc = "pager_loop" => \A i \in DOMAIN pager.sizes : pager.sizes[i] = limit
    /\ pc \in {"pager_return", "pager_done"} =>
          /\ pager.sizes /= <<>>
          /\ pager.sizes[Len(pager.sizes)] < limit
    \* the table returned is the pages fetched, one after the other
    /\ pc = "pager_done" => pager.returned = FetchedPages(Len(pager.sizes))
    \* a failure raises and nothing is returned
    /\ pc = "pager_raised" => pager.raised = "ValueError" /\ pager.returned = <<>>
    /\ pc /= "pager_done" => pager.returned = <<>>

\* C19: the offsets requested are 0, limit, 2*limit, ...; the loop stops after
\* the first page that is empty or shorter than limit; the table returned holds
\* the readings of the fetched pages, each once, in page order, and is empty
\* when the first page is empty; a response that is not OK raises and returns
\* nothing; and when the server stops serving full pages the call ends.
C19_Pagination == [](pager.op = "get_sensor_timeseries" => PagerSafe)
                  /\ <>(pc \in {"pager_done", "pager_raised"})

\* a return after two full pages and a short third one
C19_Witness ==
    /\ pc = "pager_done"
    /\ pager.requests = <<0, limit, 2 * limit>>
    /\ Len(pager.returned) > 2 * limit
    /\ \A k \in DOMAIN pager.returned : pager.returned[k] = k

====
